---- MODULE Spec2Model ----
(***************************************************************************)
(* IMMO&CO front end (frontend/src/App.js, components/Map.js).             *)
(* The Home component's listing search: query text, the nine filter        *)
(* fields, the active view, the result set, and the GET /listings requests *)
(* in flight.  Every event handler is one action; a request's response is  *)
(* a later action of its own, so responses may arrive in any order.        *)
(***************************************************************************)
EXTENDS Integers, Sequences, FiniteSets, TLC

\* ------------------------------------------------------------- bounds
\* At most this many GET /listings requests are awaiting a response.
MaxInFlight == 2
\* At most this many filter fields hold a non-empty value at once.
MaxSetFields == 2
\* At most this many GET /reverse-geocode requests are awaiting a response.
MaxGeoInFlight == 2
\* The backend stores at most this many new listings.
MaxCreated == 2
\* At most this many GET /auth/me requests are awaiting a response.
MaxMeInFlight == 2
\* The backend reports at most this many likes of a listing.
MaxLikes == 1
\* A listing has at most this many comments.
MaxComments == 1

\* ------------------------------------------------------------- values
\* JS `undefined`, as the value of an object key.
Undefined == "<undefined>"
\* The empty object {} (the default of fetchListings' searchParams).
EmptyObj == [k \in {} |-> ""]

FilterFields ==
  {"city", "neighborhood", "listing_type", "price_min", "price_max",
   "surface_min", "surface_max", "rooms_min", "rooms_max"}
NumericFields ==
  {"price_min", "price_max", "surface_min", "surface_max", "rooms_min", "rooms_max"}

\* useState initial value of filters; also what resetFilters passes to setFilters.
EmptyFilters == [f \in FilterFields |-> ""]

\* What the user can put into each control of the sidebar.  A number input
\* yields its text (no min attribute, so a negative number is accepted).
FieldInputs(f) ==
  CASE f = "city" -> {"", "Libreville", "Port-Gentil"}
    [] f = "neighborhood" -> {"", "Louis"}
    [] f = "listing_type" -> {"", "sale", "rent"}
    [] OTHER -> {"", "-5", "500", "1000000"}

\* The number a number input's text stands for.
ToNumber(s) ==
  CASE s = "-5" -> -5
    [] s = "500" -> 500
    [] s = "1000000" -> 1000000

\* The three ranges of the sidebar, each a minimum and a maximum field.
Ranges ==
  { [min |-> "price_min", max |-> "price_max"],
    [min |-> "surface_min", max |-> "surface_max"],
    [min |-> "rooms_min", max |-> "rooms_max"] }
\* Both bounds of range r are entered in flt and the minimum is the larger.
Inverted(flt, r) ==
  /\ flt[r.min] # ""
  /\ flt[r.max] # ""
  /\ ToNumber(flt[r.min]) > ToNumber(flt[r.max])

\* What the user can type into the header's search box.
QueryInputs == {"", "pk12"}

\* A coordinate of a listing as the backend returns it: a number or null.
Coord(n) == [has |-> TRUE, v |-> n]
NoCoord == [has |-> FALSE, v |-> 0]
\* JS truthiness of a coordinate: null and 0 are falsy.
Truthy(c) == c.has /\ c.v # 0

L1 == [id |-> 1, lat |-> Coord(1), lon |-> Coord(9)]
L2 == [id |-> 2, lat |-> Coord(0), lon |-> Coord(9)]
L3 == [id |-> 3, lat |-> NoCoord, lon |-> NoCoord]
L4 == [id |-> 4, lat |-> Coord(2), lon |-> Coord(10)]
\* The response bodies GET /listings may return.
Results == {<<>>, <<L1>>, <<L4, L2, L1>>, <<L3>>}

Users == {"anon", "u1"}
Views == {"home", "search", "map", "favorites", "profile"}

NoNotice == "none"
ErrLoadListings == "Erreur lors du chargement des annonces"
ErrGeocode == "Impossible de récupérer les informations de localisation"
OkGeocode == "Localisation définie !"
ErrMaxFiles == "Maximum 10 fichiers autorisés"
ErrPublish == "Erreur lors de la publication"
OkPublish == "Annonce publiée avec succès !"
InfoLogout == "Déconnexion réussie"
ErrLikeLogin == "Connectez-vous pour liker"
ErrLike == "Erreur lors du like"
ErrFavorite == "Erreur lors de la gestion des favoris"
OkFavorite(k) == IF k = "favorite-add" THEN "Ajouté aux favoris" ELSE "Retiré des favoris"
OkComment == "Commentaire ajouté"
ErrComment == "Erreur lors de l'ajout du commentaire"
\* What the user may type into the card's comment box.
CommentInputs == {"", "ok"}

\* The two dialogs of the header that open a session.
AuthKinds == {"login", "register"}
OkAuth(k) == IF k = "login" THEN "Connexion réussie !" ELSE "Inscription réussie !"
ErrAuth(k) == IF k = "login" THEN "Erreur de connexion" ELSE "Erreur d'inscription"

\* handleFileSelect's limit on files.length + selectedFiles.length.
MaxFiles == 10
\* How many files one use of the file input may pick.
FileBatches == {1, 4, 7}

\* The bodies GET /reverse-geocode may return; any field may be missing or empty.
GeoResults ==
  { [city |-> "Libreville", neighborhood |-> "Louis", address |-> "Bd Triomphal"],
    [city |-> "Owendo", neighborhood |-> Undefined, address |-> ""] }
\* What the user may type into a text input of the publish form.
FormInputs == {"", "Akanda"}
\* JS `v || ''` on a string or undefined.
OrEmpty(v) == IF v \in {Undefined, ""} THEN "" ELSE v

NoRequest == [by |-> "none", query |-> EmptyObj]

\* The four lists Home loads beside the listings.
AuxKinds == {"cities", "neighborhoods", "favorites", "my-listings"}
\* What Home's effect fetches: the last two only for a logged-in user.
EffectFetches(u) ==
  {"cities", "neighborhoods"}
    \cup (IF u # "anon" THEN {"favorites", "my-listings"} ELSE {})

\* A point of the map, as Leaflet's latlng.
LatLng(lat, lng) == [has |-> TRUE, lat |-> lat, lng |-> lng]
NoMarker == [has |-> FALSE, lat |-> 0, lng |-> 0]
\* Where the user may click on the dialog's map.
MapPoints == {LatLng(0, 9), LatLng(1, 10)}

NoGeoRequest == [has |-> FALSE, lat |-> 0, lon |-> 0]
EmptyForm == [city |-> "", neighborhood |-> "", address |-> ""]
NotSubmitting == [at |-> "idle", files |-> 0, base |-> 0]

\* No token: null in state, no item in localStorage, no Authorization header.
NoToken == "null"
\* The tokens the backend may issue.
Tokens == {"t1", "t2"}

\* No card on screen, and a card as ListingCard's useState calls create it
\* (the listing carries no likes_count).
NoCard == [mounted |-> FALSE, liked |-> FALSE, likesCount |-> 0, isFavorite |-> FALSE,
           comments |-> 0, showComments |-> FALSE, newComment |-> ""]
NewCard == [NoCard EXCEPT !.mounted = TRUE]
NoCardRequest == "none"

VARIABLES
  listings,        \* Home: useState([])
  loading,         \* Home: useState(true)
  searchQuery,     \* Home: useState('')
  activeView,      \* Home: useState('home')
  selectedListing, \* Home: useState(null); 0 is null, else the listing's id
  filters,         \* Home: useState({city: '', ...})
  user,            \* AuthProvider: the logged-in user, "anon" is null
  pending,         \* the GET /listings requests awaiting a response, oldest first
  latest,          \* the most recently issued GET /listings request and its outcome
  sent,            \* the GET /listings request this step put on the wire
  notice,          \* the toast this step emitted
  resetFrom,       \* the fields resetFilters last cleared, until the next edit
  aux,             \* Home: which of the GETs for cities, neighborhoods, favorites
                   \* and my-listings await a response
  lists,           \* Home: cities, neighborhoods, favorites, myListings: loaded or not
  publishOpen,     \* Header: useState(false)
  step,            \* PublishDialog: useState(1)
  form,            \* PublishDialog: city, neighborhood, address
  placedMarker,    \* PublishDialog: useState(null)
  isPlacingMarker, \* PublishDialog: useState(false)
  selectedFiles,   \* PublishDialog: selectedFiles.length
  dlgLoading,      \* PublishDialog: loading
  submitting,      \* where handleSubmit is suspended, with the files it captured
                   \* and the number of listings the backend held at submit
  geoPending,      \* number of GET /reverse-geocode requests awaiting a response
  geoSent,         \* the GET /reverse-geocode request this step put on the wire
  lookedUp,        \* a reverse-geocode lookup has filled the form
  edited,          \* the form fields typed into since the last such lookup
  created,         \* backend: listings created by POST /listings
  token,           \* AuthProvider: useState(localStorage.getItem('token'))
  stored,          \* localStorage's 'token' item
  header,          \* axios.defaults.headers.common['Authorization']
  mePending,       \* number of GET /auth/me requests awaiting a response
  loginOpen,       \* Header: useState(false)
  registerOpen,    \* Header: useState(false)
  authPending,     \* which of POST /auth/login, /auth/register await a response
  card,            \* one ListingCard: whether it is mounted, and its state
  cardPending,     \* the requests of that card awaiting a response
  cardSent         \* the request that card put on the wire in this step

homeVars == <<listings, loading, searchQuery, activeView, selectedListing, filters,
              user, pending, latest, resetFrom>>
auxVars == <<aux, lists>>
dlgVars == <<publishOpen, step, form, placedMarker, isPlacingMarker, selectedFiles,
             dlgLoading, submitting, geoPending, lookedUp, edited, created>>

authVars == <<token, stored, header, mePending, loginOpen, registerOpen, authPending>>
cardVars == <<card, cardPending>>

vars == <<homeVars, sent, notice, auxVars, dlgVars, geoSent, authVars, cardVars,
          cardSent>>

NoReset == {"<none>"}

\* A step of Home leaves the publish dialog alone and sends no geocode request.
DialogIdle == geoSent' = NoGeoRequest /\ UNCHANGED dlgVars
\* A step that starts or ends none of the four list GETs.
AuxIdle == UNCHANGED auxVars
\* A step outside the auth provider and the login and register dialogs.
AuthIdle == UNCHANGED authVars
\* A step outside the listing card.
CardIdle == cardSent' = NoCardRequest /\ UNCHANGED cardVars

\* ------------------------------------------------- query serialization
\* handleSearch without its filter on '': every filter entry is sent.
HandleSearchParamsKeepsEmpty(q, flt) ==
  [k \in {"search"} \cup FilterFields |->
     IF k = "search" THEN (IF q # "" THEN q ELSE Undefined) ELSE flt[k]]

\* handleSearch putting the bounds of a range in order before sending them.
HandleSearchParamsOrdersRanges(q, flt) ==
  [k \in {"search"} \cup {f \in FilterFields : flt[f] # ""} |->
     IF k = "search" THEN (IF q # "" THEN q ELSE Undefined)
     ELSE IF \E r \in Ranges : k \in {r.min, r.max} /\ Inverted(flt, r)
       THEN LET r == CHOOSE r \in Ranges : k \in {r.min, r.max}
            IN  IF k = r.min THEN flt[r.max] ELSE flt[r.min]
       ELSE flt[k]]

\* handleSearch's searchParams: the key `search` (undefined when the text is
\* empty) and every filter entry whose value is not ''.
HandleSearchParams(q, flt) ==
  [k \in {"search"} \cup {f \in FilterFields : flt[f] # ""} |->
     IF k = "search" THEN (IF q # "" THEN q ELSE Undefined) ELSE flt[k]]

\* fetchListings with searchParams taking the place of the defaults.
FetchListingsParamsNoDefaults(searchParams) ==
  IF DOMAIN searchParams = {} THEN [random_order |-> "true", limit |-> "20"]
  ELSE searchParams

\* fetchListings' params: { random_order: true, limit: 20, ...searchParams }.
FetchListingsParams(searchParams) ==
  searchParams @@ [random_order |-> "true", limit |-> "20"]

\* axios.get(url, { params }): a key whose value is undefined is not serialized.
WireQuery(params) ==
  [k \in {x \in DOMAIN params : params[x] # Undefined} |-> params[k]]

\* -------------------------------------------------------------- render
\* Which branch of renderContent is on screen.
RenderKind ==
  IF loading THEN "skeleton"
  ELSE IF activeView \in {"search", "map", "favorites", "profile"} THEN activeView
  ELSE "default"

Ids(s) == [i \in 1..Len(s) |-> s[i].id]

\* The ListingCard elements listings.map produces from a result set.
CardsOf(ls) == Ids(ls)

\* The cards of the result set that renderContent puts on screen.
ListCards ==
  IF RenderKind \in {"search", "default"} THEN CardsOf(listings) ELSE <<>>

\* The Marker elements Map produces from its listings prop.
MapMarkers(ls) ==
  Ids(SelectSeq(ls, LAMBDA l : Truthy(l.lat) /\ Truthy(l.lon)))

\* --------------------------------------------------------------- state
\* A request in flight remembers the result set on screen when it was issued.
Request(before) == [before |-> before]
Awaited == [state |-> "pending", data |-> <<>>]

\* fetchListings up to its await: setLoading(true) and the GET is sent.
IssueListings(by, searchParams) ==
  /\ Len(pending) < MaxInFlight
  /\ loading' = TRUE
  /\ pending' = Append(pending, Request(listings))
  /\ latest' = Awaited
  /\ sent' = [by |-> by, query |-> WireQuery(FetchListingsParams(searchParams))]

\* fetchListings called from a handler that shows no toast.
FetchListings(by, searchParams) ==
  /\ IssueListings(by, searchParams)
  /\ notice' = NoNotice

\* Home after its first render and the mount run of its effect.
Init ==
  /\ listings = <<>>
  /\ loading = TRUE
  /\ searchQuery = ""
  /\ activeView = "home"
  /\ selectedListing = 0
  /\ filters = EmptyFilters
  /\ user = "anon"
  /\ pending = <<Request(<<>>)>>
  /\ latest = Awaited
  /\ sent = [by |-> "effect", query |-> WireQuery(FetchListingsParams(EmptyObj))]
  /\ notice = NoNotice
  /\ resetFrom = NoReset
  /\ aux = EffectFetches("anon")
  /\ lists = [k \in AuxKinds |-> "empty"]
  /\ publishOpen = FALSE
  /\ step = 1
  /\ form = EmptyForm
  /\ placedMarker = NoMarker
  /\ isPlacingMarker = FALSE
  /\ selectedFiles = 0
  /\ dlgLoading = FALSE
  /\ submitting = NotSubmitting
  /\ geoPending = 0
  /\ geoSent = NoGeoRequest
  /\ lookedUp = FALSE
  /\ edited = {}
  /\ created = 0
  /\ token = NoToken
  /\ stored = NoToken
  /\ header = NoToken
  /\ mePending = 0
  /\ loginOpen = FALSE
  /\ registerOpen = FALSE
  /\ authPending = {}
  /\ card = NoCard
  /\ cardPending = {}
  /\ cardSent = NoCardRequest

\* Header: onChange of the search box.
SetSearchQuery(q) ==
  /\ searchQuery' = q
  /\ sent' = NoRequest
  /\ notice' = NoNotice
  /\ UNCHANGED <<listings, loading, activeView, selectedListing, filters, user,
                 pending, latest, resetFrom>>
  /\ AuxIdle
  /\ DialogIdle
  /\ AuthIdle
  /\ CardIdle

\* The city select also emptying the neighbourhood chosen under the old city.
SetFilterFieldClearsNeighborhood(f, v) ==
  /\ RenderKind = "search"
  /\ filters' = IF f = "city"
                  THEN [filters EXCEPT !["city"] = v, !["neighborhood"] = ""]
                  ELSE [filters EXCEPT ![f] = v]
  /\ Cardinality({x \in FilterFields : filters'[x] # ""}) <= MaxSetFields
  /\ resetFrom' = NoReset
  /\ sent' = NoRequest
  /\ notice' = NoNotice
  /\ UNCHANGED <<listings, loading, searchQuery, activeView, selectedListing,
                 user, pending, latest>>
  /\ AuxIdle
  /\ DialogIdle
  /\ AuthIdle
  /\ CardIdle

\* FiltersSidebar: onChange / onValueChange of one control.
SetFilterField(f, v) ==
  /\ RenderKind = "search"
  /\ filters' = [filters EXCEPT ![f] = v]
  /\ Cardinality({x \in FilterFields : filters'[x] # ""}) <= MaxSetFields
  /\ resetFrom' = NoReset
  /\ sent' = NoRequest
  /\ notice' = NoNotice
  /\ UNCHANGED <<listings, loading, searchQuery, activeView, selectedListing,
                 user, pending, latest>>
  /\ AuxIdle
  /\ DialogIdle
  /\ AuthIdle
  /\ CardIdle

\* resetFilters with price_min left out of the object it sets.
ResetFiltersKeepsPrice ==
  /\ RenderKind = "search"
  /\ filters' = [EmptyFilters EXCEPT !["price_min"] = filters["price_min"]]
  /\ resetFrom' = {f \in FilterFields : filters[f] # ""}
  /\ sent' = NoRequest
  /\ notice' = NoNotice
  /\ UNCHANGED <<listings, loading, searchQuery, activeView, selectedListing,
                 user, pending, latest>>
  /\ AuxIdle
  /\ DialogIdle
  /\ AuthIdle
  /\ CardIdle

\* resetFilters clearing the search box too, as "Voir toutes les annonces" does.
ResetFiltersClearsQuery ==
  /\ RenderKind = "search"
  /\ filters' = EmptyFilters
  /\ searchQuery' = ""
  /\ resetFrom' = {f \in FilterFields : filters[f] # ""}
  /\ sent' = NoRequest
  /\ notice' = NoNotice
  /\ UNCHANGED <<listings, loading, activeView, selectedListing,
                 user, pending, latest>>
  /\ AuxIdle
  /\ DialogIdle
  /\ AuthIdle
  /\ CardIdle

\* FiltersSidebar.resetFilters.
ResetFilters ==
  /\ RenderKind = "search"
  /\ filters' = EmptyFilters
  /\ resetFrom' = {f \in FilterFields : filters[f] # ""}
  /\ sent' = NoRequest
  /\ notice' = NoNotice
  /\ UNCHANGED <<listings, loading, searchQuery, activeView, selectedListing,
                 user, pending, latest>>
  /\ AuxIdle
  /\ DialogIdle
  /\ AuthIdle
  /\ CardIdle

\* Home.handleSearch (the header's form submit, always on screen, and
\* "Appliquer les filtres" through handleApplyFilters).
HandleSearch ==
  /\ FetchListings("handleSearch", HandleSearchParams(searchQuery, filters))
  /\ UNCHANGED <<listings, searchQuery, activeView, selectedListing, filters,
                 user, resetFrom>>
  /\ AuxIdle
  /\ DialogIdle
  /\ AuthIdle
  /\ CardIdle

\* "Actualiser" and "Voir plus d'annonces": onClick={() => fetchListings()}.
Actualiser ==
  /\ RenderKind \in {"search", "default"}
  /\ FetchListings("fetchListings", EmptyObj)
  /\ UNCHANGED <<listings, searchQuery, activeView, selectedListing, filters,
                 user, resetFrom>>
  /\ AuxIdle
  /\ DialogIdle
  /\ AuthIdle
  /\ CardIdle

\* "Voir toutes les annonces", shown by the default view when listings is empty.
VoirToutes ==
  /\ RenderKind = "default"
  /\ Len(listings) = 0
  /\ searchQuery' = ""
  /\ filters' = EmptyFilters
  /\ FetchListings("fetchListings", EmptyObj)
  /\ UNCHANGED <<listings, activeView, selectedListing, user, resetFrom>>
  /\ AuxIdle
  /\ DialogIdle
  /\ AuthIdle
  /\ CardIdle

\* The views a button on screen switches to: the header's "Recherche
\* avancee" and "Carte" (and "Voir sur la carte" of the default view),
\* "Favoris" when a user is logged in, and the empty profile view's button,
\* which sets 'home'.  Nothing sets 'profile'.
ViewButtons ==
  {"search", "map"}
    \cup (IF user # "anon" THEN {"favorites"} ELSE {})
    \cup (IF RenderKind = "profile" THEN {"home"} ELSE {})

\* setActiveView re-fetching the listings when the map is opened.
SetActiveViewRefetches(v) ==
  /\ v \in ViewButtons
  /\ activeView' = v
  /\ IF v = "map" /\ Len(pending) < MaxInFlight
       THEN FetchListings("fetchListings", EmptyObj)
       ELSE /\ sent' = NoRequest
            /\ notice' = NoNotice
            /\ UNCHANGED <<loading, pending, latest>>
  /\ UNCHANGED <<listings, searchQuery, selectedListing, filters, user, resetFrom>>
  /\ AuxIdle
  /\ DialogIdle
  /\ AuthIdle
  /\ CardIdle

\* setActiveView(v) from one of those buttons.
SetActiveView(v) ==
  /\ v \in ViewButtons
  /\ activeView' = v
  /\ sent' = NoRequest
  /\ notice' = NoNotice
  /\ UNCHANGED <<listings, loading, searchQuery, selectedListing, filters, user,
                 pending, latest, resetFrom>>
  /\ AuxIdle
  /\ DialogIdle
  /\ AuthIdle
  /\ CardIdle

\* Home.handleMarkerClick, from the "Carte" button of a listing's card.
HandleMarkerClick(i) ==
  /\ RenderKind \in {"search", "default"}
  /\ i \in 1..Len(listings)
  /\ Truthy(listings[i].lat) /\ Truthy(listings[i].lon)
  /\ selectedListing' = listings[i].id
  /\ activeView' = "map"
  /\ sent' = NoRequest
  /\ notice' = NoNotice
  /\ UNCHANGED <<listings, loading, searchQuery, filters, user, pending, latest,
                 resetFrom>>
  /\ AuxIdle
  /\ DialogIdle
  /\ AuthIdle
  /\ CardIdle

\* A marker of the map view is clicked: onMarkerClick={setSelectedListing}.
MapMarkerClick(i) ==
  /\ RenderKind = "map"
  /\ i \in 1..Len(listings)
  /\ Truthy(listings[i].lat) /\ Truthy(listings[i].lon)
  /\ selectedListing' = listings[i].id
  /\ sent' = NoRequest
  /\ notice' = NoNotice
  /\ UNCHANGED <<listings, loading, searchQuery, activeView, filters, user,
                 pending, latest, resetFrom>>
  /\ AuxIdle
  /\ DialogIdle
  /\ AuthIdle
  /\ CardIdle

\* The auth context's user changes (login, logout) and Home's effect runs again.
UserChanged(u) ==
  /\ u # user
  /\ user' = u
  /\ FetchListings("effect", EmptyObj)
  /\ UNCHANGED <<listings, searchQuery, activeView, selectedListing, filters,
                 resetFrom>>
  /\ aux' = aux \cup EffectFetches(u)
  /\ lists' = lists
  /\ DialogIdle
  /\ AuthIdle
  /\ CardIdle

\* pending without its i-th request.
Remove(seq, i) == SubSeq(seq, 1, i - 1) \o SubSeq(seq, i + 1, Len(seq))

\* The i-th request in flight is the most recently issued one.
IsLatest(i) == latest.state = "pending" /\ i = Len(pending)

\* A result set ordered by ascending id.
SortedById(r) ==
  LET ids == {r[k].id : k \in DOMAIN r}
      Rank(l) == Cardinality({x \in ids : x <= l.id})
  IN  [n \in 1..Len(r) |-> CHOOSE l \in {r[k] : k \in DOMAIN r} : Rank(l) = n]

\* fetchListings sorting the response before storing it.
ListingsLoadedSorted(i, r) ==
  /\ i \in DOMAIN pending
  /\ listings' = SortedById(r)
  /\ loading' = FALSE
  /\ pending' = Remove(pending, i)
  /\ latest' = IF IsLatest(i) THEN [state |-> "ok", data |-> r] ELSE latest
  /\ sent' = NoRequest
  /\ notice' = NoNotice
  /\ UNCHANGED <<searchQuery, activeView, selectedListing, filters, user, resetFrom>>
  /\ AuxIdle
  /\ DialogIdle
  /\ AuthIdle
  /\ CardIdle

\* fetchListings after its await, request i fulfilled with body r.
ListingsLoaded(i, r) ==
  /\ i \in DOMAIN pending
  /\ listings' = r
  /\ loading' = FALSE
  /\ pending' = Remove(pending, i)
  /\ latest' = IF IsLatest(i) THEN [state |-> "ok", data |-> r] ELSE latest
  /\ sent' = NoRequest
  /\ notice' = NoNotice
  /\ UNCHANGED <<searchQuery, activeView, selectedListing, filters, user, resetFrom>>
  /\ AuxIdle
  /\ DialogIdle
  /\ AuthIdle
  /\ CardIdle

\* The catch branch emptying the result set.
ListingsFailedClears(i) ==
  /\ i \in DOMAIN pending
  /\ listings' = <<>>
  /\ loading' = FALSE
  /\ pending' = Remove(pending, i)
  /\ latest' = IF IsLatest(i) THEN [state |-> "failed", data |-> <<>>] ELSE latest
  /\ sent' = NoRequest
  /\ notice' = ErrLoadListings
  /\ UNCHANGED <<searchQuery, activeView, selectedListing, filters, user, resetFrom>>
  /\ AuxIdle
  /\ DialogIdle
  /\ AuthIdle
  /\ CardIdle

\* The catch branch calling fetchListings() again.
ListingsFailedRetries(i) ==
  /\ i \in DOMAIN pending
  /\ loading' = TRUE
  /\ pending' = Append(Remove(pending, i), Request(listings))
  /\ latest' = Awaited
  /\ sent' = [by |-> "fetchListings", query |-> WireQuery(FetchListingsParams(EmptyObj))]
  /\ notice' = ErrLoadListings
  /\ UNCHANGED <<listings, searchQuery, activeView, selectedListing, filters,
                 user, resetFrom>>
  /\ AuxIdle
  /\ DialogIdle
  /\ AuthIdle
  /\ CardIdle

\* fetchListings without its finally: a rejection leaves loading as it is.
ListingsFailedKeepsLoading(i) ==
  /\ i \in DOMAIN pending
  /\ pending' = Remove(pending, i)
  /\ latest' = IF IsLatest(i) THEN [state |-> "failed", data |-> <<>>] ELSE latest
  /\ sent' = NoRequest
  /\ notice' = ErrLoadListings
  /\ UNCHANGED <<listings, loading, searchQuery, activeView, selectedListing,
                 filters, user, resetFrom>>
  /\ AuxIdle
  /\ DialogIdle
  /\ AuthIdle
  /\ CardIdle

\* fetchListings after its await, request i rejected.
ListingsFailed(i) ==
  /\ i \in DOMAIN pending
  /\ loading' = FALSE
  /\ pending' = Remove(pending, i)
  /\ latest' = IF IsLatest(i) THEN [state |-> "failed", data |-> <<>>] ELSE latest
  /\ sent' = NoRequest
  /\ notice' = ErrLoadListings
  /\ UNCHANGED <<listings, searchQuery, activeView, selectedListing, filters,
                 user, resetFrom>>
  /\ AuxIdle
  /\ DialogIdle
  /\ AuthIdle
  /\ CardIdle

\* ------------------------------------------------------------- lists
\* A step outside Home's listing coordinator.
HomeIdle == sent' = NoRequest /\ UNCHANGED homeVars

\* fetchCities, fetchNeighborhoods, fetchFavorites, fetchMyListings: the
\* response arrives and the list is stored.
AuxLoaded(k) ==
  /\ k \in aux
  /\ aux' = aux \ {k}
  /\ lists' = [lists EXCEPT ![k] = "loaded"]
  /\ notice' = NoNotice
  /\ HomeIdle
  /\ DialogIdle
  /\ AuthIdle
  /\ CardIdle

\* Their catch: console.error and nothing else.
AuxFailed(k) ==
  /\ k \in aux
  /\ aux' = aux \ {k}
  /\ lists' = lists
  /\ notice' = NoNotice
  /\ HomeIdle
  /\ DialogIdle
  /\ AuthIdle
  /\ CardIdle

\* ------------------------------------------------------------- publish dialog
\* A step of the dialog that sends no geocode request.
NoGeoSent == geoSent' = NoGeoRequest

\* Header: the "Publier" trigger, shown to a logged-in user.
OpenPublish ==
  /\ user # "anon"
  /\ ~publishOpen
  /\ publishOpen' = TRUE
  /\ notice' = NoNotice
  /\ UNCHANGED <<step, form, placedMarker, isPlacingMarker, selectedFiles,
                 dlgLoading, submitting, geoPending, lookedUp, edited, created>>
  /\ NoGeoSent /\ HomeIdle /\ AuxIdle /\ AuthIdle /\ CardIdle

\* "Annuler" (onClose) and the dialog's own close: setPublishOpen(false).
ClosePublish ==
  /\ publishOpen
  /\ publishOpen' = FALSE
  /\ notice' = NoNotice
  /\ UNCHANGED <<step, form, placedMarker, isPlacingMarker, selectedFiles,
                 dlgLoading, submitting, geoPending, lookedUp, edited, created>>
  /\ NoGeoSent /\ HomeIdle /\ AuxIdle /\ AuthIdle /\ CardIdle

\* "Localiser sur la carte", "Retour au formulaire", "Confirmer la localisation".
SetStep(n) ==
  /\ publishOpen
  /\ step # n
  /\ step' = n
  /\ notice' = NoNotice
  /\ UNCHANGED <<publishOpen, form, placedMarker, isPlacingMarker, selectedFiles,
                 dlgLoading, submitting, geoPending, lookedUp, edited, created>>
  /\ NoGeoSent /\ HomeIdle /\ AuxIdle /\ AuthIdle /\ CardIdle

\* "Placer un marqueur".
SetIsPlacingMarker ==
  /\ publishOpen
  /\ step = 2
  /\ isPlacingMarker' = TRUE
  /\ notice' = NoNotice
  /\ UNCHANGED <<publishOpen, step, form, placedMarker, selectedFiles,
                 dlgLoading, submitting, geoPending, lookedUp, edited, created>>
  /\ NoGeoSent /\ HomeIdle /\ AuxIdle /\ AuthIdle /\ CardIdle

\* A text input of the form: setCity, setNeighborhood, setAddress.
SetFormField(f, v) ==
  /\ publishOpen
  /\ step = 1
  /\ form' = [form EXCEPT ![f] = v]
  /\ edited' = IF lookedUp THEN edited \cup {f} ELSE edited
  /\ notice' = NoNotice
  /\ UNCHANGED <<publishOpen, step, placedMarker, isPlacingMarker, selectedFiles,
                 dlgLoading, submitting, geoPending, lookedUp, created>>
  /\ NoGeoSent /\ HomeIdle /\ AuxIdle /\ AuthIdle /\ CardIdle

\* A click on the dialog's map while no placement is armed: MapClickHandler
\* calls nothing.
MapClickUnarmed(latlng) ==
  /\ publishOpen
  /\ step = 2
  /\ ~isPlacingMarker
  /\ notice' = NoNotice
  /\ UNCHANGED dlgVars
  /\ NoGeoSent /\ HomeIdle /\ AuxIdle /\ AuthIdle /\ CardIdle

\* handleMapClick without setIsPlacingMarker(false).
HandleMapClickStaysArmed(latlng) ==
  /\ publishOpen
  /\ step = 2
  /\ isPlacingMarker
  /\ geoPending < MaxGeoInFlight
  /\ placedMarker' = latlng
  /\ geoPending' = geoPending + 1
  /\ geoSent' = [has |-> TRUE, lat |-> latlng.lat, lon |-> latlng.lng]
  /\ notice' = NoNotice
  /\ UNCHANGED <<publishOpen, step, form, isPlacingMarker, selectedFiles, dlgLoading,
                 submitting, lookedUp, edited, created>>
  /\ HomeIdle /\ AuxIdle /\ AuthIdle /\ CardIdle

\* handleMapClick sending the longitude as lat and the latitude as lon.
HandleMapClickSwapsLatLon(latlng) ==
  /\ publishOpen
  /\ step = 2
  /\ isPlacingMarker
  /\ geoPending < MaxGeoInFlight
  /\ placedMarker' = latlng
  /\ isPlacingMarker' = FALSE
  /\ geoPending' = geoPending + 1
  /\ geoSent' = [has |-> TRUE, lat |-> latlng.lng, lon |-> latlng.lat]
  /\ notice' = NoNotice
  /\ UNCHANGED <<publishOpen, step, form, selectedFiles, dlgLoading, submitting,
                 lookedUp, edited, created>>
  /\ HomeIdle /\ AuxIdle /\ AuthIdle /\ CardIdle

\* A click on the dialog's map (MapClickHandler, then handleMapClick up to
\* its await).
HandleMapClick(latlng) ==
  /\ publishOpen
  /\ step = 2
  /\ isPlacingMarker
  /\ geoPending < MaxGeoInFlight
  /\ placedMarker' = latlng
  /\ isPlacingMarker' = FALSE
  /\ geoPending' = geoPending + 1
  /\ geoSent' = [has |-> TRUE, lat |-> latlng.lat, lon |-> latlng.lng]
  /\ notice' = NoNotice
  /\ UNCHANGED <<publishOpen, step, form, selectedFiles, dlgLoading, submitting,
                 lookedUp, edited, created>>
  /\ HomeIdle /\ AuxIdle /\ AuthIdle /\ CardIdle

\* handleMapClick after its await: the lookup answered.
GeocodeLoaded(data) ==
  /\ geoPending > 0
  /\ geoPending' = geoPending - 1
  /\ form' = [city |-> OrEmpty(data.city),
              neighborhood |-> OrEmpty(data.neighborhood),
              address |-> OrEmpty(data.address)]
  /\ lookedUp' = TRUE
  /\ edited' = {}
  /\ notice' = OkGeocode
  /\ UNCHANGED <<publishOpen, step, placedMarker, isPlacingMarker, selectedFiles,
                 dlgLoading, submitting, created>>
  /\ NoGeoSent /\ HomeIdle /\ AuxIdle /\ AuthIdle /\ CardIdle

\* A catch that also empties the three fields.
GeocodeFailedClearsFields ==
  /\ geoPending > 0
  /\ geoPending' = geoPending - 1
  /\ form' = EmptyForm
  /\ notice' = ErrGeocode
  /\ UNCHANGED <<publishOpen, step, placedMarker, isPlacingMarker, selectedFiles,
                 dlgLoading, submitting, lookedUp, edited, created>>
  /\ NoGeoSent /\ HomeIdle /\ AuxIdle /\ AuthIdle /\ CardIdle

\* handleMapClick's catch: the lookup failed.
GeocodeFailed ==
  /\ geoPending > 0
  /\ geoPending' = geoPending - 1
  /\ notice' = ErrGeocode
  /\ UNCHANGED <<publishOpen, step, form, placedMarker, isPlacingMarker,
                 selectedFiles, dlgLoading, submitting, lookedUp, edited, created>>
  /\ NoGeoSent /\ HomeIdle /\ AuxIdle /\ AuthIdle /\ CardIdle

\* A limit that looks at the new files only.
HandleFileSelectIgnoresSelected(n) ==
  /\ publishOpen
  /\ step = 1
  /\ IF n > MaxFiles
       THEN notice' = ErrMaxFiles /\ selectedFiles' = selectedFiles
       ELSE notice' = NoNotice /\ selectedFiles' = selectedFiles + n
  /\ UNCHANGED <<publishOpen, step, form, placedMarker, isPlacingMarker,
                 dlgLoading, submitting, geoPending, lookedUp, edited, created>>
  /\ NoGeoSent /\ HomeIdle /\ AuxIdle /\ AuthIdle /\ CardIdle

\* The file input's onChange with n files picked.
HandleFileSelect(n) ==
  /\ publishOpen
  /\ step = 1
  /\ IF n + selectedFiles > MaxFiles
       THEN notice' = ErrMaxFiles /\ selectedFiles' = selectedFiles
       ELSE notice' = NoNotice /\ selectedFiles' = selectedFiles + n
  /\ UNCHANGED <<publishOpen, step, form, placedMarker, isPlacingMarker,
                 dlgLoading, submitting, geoPending, lookedUp, edited, created>>
  /\ NoGeoSent /\ HomeIdle /\ AuxIdle /\ AuthIdle /\ CardIdle

\* The remove button of one selected file.
RemoveFile ==
  /\ publishOpen
  /\ step = 1
  /\ selectedFiles > 0
  /\ selectedFiles' = selectedFiles - 1
  /\ notice' = NoNotice
  /\ UNCHANGED <<publishOpen, step, form, placedMarker, isPlacingMarker,
                 dlgLoading, submitting, geoPending, lookedUp, edited, created>>
  /\ NoGeoSent /\ HomeIdle /\ AuxIdle /\ AuthIdle /\ CardIdle

\* The form is submitted (city is a required input; the submit button is
\* disabled while loading): handleSubmit up to its POST /listings.
HandleSubmit ==
  /\ publishOpen
  /\ step = 1
  /\ ~dlgLoading
  /\ form.city # ""
  /\ created < MaxCreated
  /\ dlgLoading' = TRUE
  /\ submitting' = [at |-> "listing", files |-> selectedFiles, base |-> created]
  /\ notice' = NoNotice
  /\ UNCHANGED <<publishOpen, step, form, placedMarker, isPlacingMarker,
                 selectedFiles, geoPending, lookedUp, edited, created>>
  /\ NoGeoSent /\ HomeIdle /\ AuxIdle /\ AuthIdle /\ CardIdle

\* window.location.reload(): the page is mounted afresh, with every request
\* of the old page dropped; the backend keeps what it stored.
Reload ==
  /\ listings' = <<>>
  /\ loading' = TRUE
  /\ searchQuery' = ""
  /\ activeView' = "home"
  /\ selectedListing' = 0
  /\ filters' = EmptyFilters
  /\ user' = "anon"
  /\ pending' = <<Request(<<>>)>>
  /\ latest' = Awaited
  /\ sent' = [by |-> "effect", query |-> WireQuery(FetchListingsParams(EmptyObj))]
  /\ resetFrom' = NoReset
  /\ aux' = EffectFetches("anon")
  /\ lists' = [k \in AuxKinds |-> "empty"]
  /\ publishOpen' = FALSE
  /\ step' = 1
  /\ form' = EmptyForm
  /\ placedMarker' = NoMarker
  /\ isPlacingMarker' = FALSE
  /\ selectedFiles' = 0
  /\ dlgLoading' = FALSE
  /\ submitting' = NotSubmitting
  /\ geoPending' = 0
  /\ geoSent' = NoGeoRequest
  /\ lookedUp' = FALSE
  /\ edited' = {}
  /\ stored' = stored
  /\ token' = stored
  /\ header' = stored
  /\ mePending' = IF stored # NoToken THEN 1 ELSE 0
  /\ loginOpen' = FALSE
  /\ registerOpen' = FALSE
  /\ authPending' = {}
  /\ card' = NoCard
  /\ cardPending' = {}
  /\ cardSent' = NoCardRequest

\* The tail of handleSubmit's try block: toast.success, onClose, reload.
Published == notice' = OkPublish /\ Reload

\* handleSubmit's catch and the setLoading(false) after it.
PublishFailed ==
  /\ notice' = ErrPublish
  /\ dlgLoading' = FALSE
  /\ submitting' = NotSubmitting
  /\ UNCHANGED <<publishOpen, step, form, placedMarker, isPlacingMarker,
                 selectedFiles, geoPending, lookedUp, edited>>
  /\ NoGeoSent /\ HomeIdle /\ AuxIdle /\ AuthIdle /\ CardIdle

\* POST /listings answered: the listing is stored; the files captured at
\* submit are uploaded next, if any.
ListingPosted ==
  /\ submitting.at = "listing"
  /\ created' = created + 1
  /\ IF submitting.files > 0
       THEN /\ submitting' = [submitting EXCEPT !.at = "images"]
            /\ notice' = NoNotice
            /\ UNCHANGED <<publishOpen, step, form, placedMarker, isPlacingMarker,
                           selectedFiles, dlgLoading, geoPending, lookedUp, edited>>
            /\ NoGeoSent /\ HomeIdle /\ AuxIdle /\ AuthIdle /\ CardIdle
       ELSE Published

\* POST /listings rejected.
ListingPostFailed ==
  /\ submitting.at = "listing"
  /\ created' = created
  /\ PublishFailed

\* POST /listings/{id}/images answered.
ImagesPosted ==
  /\ submitting.at = "images"
  /\ created' = created
  /\ Published

\* POST /listings/{id}/images rejected.
ImagesPostFailed ==
  /\ submitting.at = "images"
  /\ created' = created
  /\ PublishFailed

\* ------------------------------------------------------------- session
\* setUser as Home sees it: its effect on [user] runs again unless the user
\* was null and stays null (a user object from a response is a new object).
SetUser(u) ==
  /\ user' = u
  /\ IF u # "anon" \/ user # "anon"
       THEN /\ IssueListings("effect", EmptyObj)
            /\ aux' = aux \cup EffectFetches(u)
       ELSE /\ sent' = NoRequest
            /\ UNCHANGED <<loading, pending, latest, aux>>
  /\ lists' = lists
  /\ UNCHANGED <<listings, searchQuery, activeView, selectedListing, filters,
                 resetFrom>>

IsOpen(k) == IF k = "login" THEN loginOpen ELSE registerOpen
\* setLoginOpen(b) or setRegisterOpen(b).
SetOpen(k, b) ==
  IF k = "login"
    THEN loginOpen' = b /\ registerOpen' = registerOpen
    ELSE registerOpen' = b /\ loginOpen' = loginOpen

\* Header: the "Connexion" and "S'inscrire" triggers, shown when no user is set.
OpenAuthDialog(k) ==
  /\ user = "anon"
  /\ ~loginOpen /\ ~registerOpen
  /\ SetOpen(k, TRUE)
  /\ notice' = NoNotice
  /\ UNCHANGED <<token, stored, header, mePending, authPending>>
  /\ HomeIdle /\ AuxIdle /\ DialogIdle /\ CardIdle

\* The dialog's own close (onOpenChange).
CloseAuthDialog(k) ==
  /\ user = "anon"
  /\ IsOpen(k)
  /\ SetOpen(k, FALSE)
  /\ notice' = NoNotice
  /\ UNCHANGED <<token, stored, header, mePending, authPending>>
  /\ HomeIdle /\ AuxIdle /\ DialogIdle /\ CardIdle

\* LoginDialog / RegisterDialog handleSubmit up to the await of login() /
\* register(); the submit button is disabled while loading.
HandleAuthSubmit(k) ==
  /\ user = "anon"
  /\ IsOpen(k)
  /\ k \notin authPending
  /\ authPending' = authPending \cup {k}
  /\ notice' = NoNotice
  /\ UNCHANGED <<token, stored, header, mePending, loginOpen, registerOpen>>
  /\ HomeIdle /\ AuxIdle /\ DialogIdle /\ CardIdle

\* login() / register() fulfilled with token t, then the dialog's onClose;
\* the effect on [token] calls fetchUser when the token changed.
AuthSucceeded(k, t) ==
  /\ k \in authPending
  /\ t # token => mePending < MaxMeInFlight
  /\ authPending' = authPending \ {k}
  /\ token' = t
  /\ stored' = t
  /\ header' = t
  /\ mePending' = IF t # token THEN mePending + 1 ELSE mePending
  /\ SetUser("u1")
  /\ SetOpen(k, FALSE)
  /\ notice' = OkAuth(k)
  /\ DialogIdle /\ CardIdle

\* A rejection that also closes the dialog.
AuthFailedClosesDialog(k) ==
  /\ k \in authPending
  /\ authPending' = authPending \ {k}
  /\ SetOpen(k, FALSE)
  /\ notice' = ErrAuth(k)
  /\ UNCHANGED <<token, stored, header, mePending>>
  /\ HomeIdle /\ AuxIdle /\ DialogIdle /\ CardIdle

\* login() / register() rejected: toast.error, return false.
AuthFailed(k) ==
  /\ k \in authPending
  /\ authPending' = authPending \ {k}
  /\ notice' = ErrAuth(k)
  /\ UNCHANGED <<token, stored, header, mePending, loginOpen, registerOpen>>
  /\ HomeIdle /\ AuxIdle /\ DialogIdle /\ CardIdle

\* The body of logout().
TearDown ==
  /\ token' = NoToken
  /\ stored' = NoToken
  /\ header' = NoToken
  /\ SetUser("anon")
  /\ notice' = InfoLogout

\* Header: the logout button under the user's name.
Logout ==
  /\ user # "anon"
  /\ TearDown
  /\ UNCHANGED <<mePending, loginOpen, registerOpen, authPending>>
  /\ DialogIdle /\ CardIdle

\* fetchUser after its await: GET /auth/me answered.
MeLoaded ==
  /\ mePending > 0
  /\ mePending' = mePending - 1
  /\ SetUser("u1")
  /\ notice' = NoNotice
  /\ UNCHANGED <<token, stored, header, loginOpen, registerOpen, authPending>>
  /\ DialogIdle /\ CardIdle

\* fetchUser's catch: logout().
MeFailed ==
  /\ mePending > 0
  /\ mePending' = mePending - 1
  /\ TearDown
  /\ UNCHANGED <<loginOpen, registerOpen, authPending>>
  /\ DialogIdle /\ CardIdle

\* ------------------------------------------------------------- listing card
\* A request of the card; addComment's closure holds the comments it saw.
CardRequest(k) == [kind |-> k, base |-> IF k = "comment" THEN card.comments ELSE 0]
\* A kind of request is in flight.
InFlight(k) == \E r \in cardPending : r.kind = k
\* One request of kind k is answered.
Answered(k) ==
  /\ InFlight(k)
  /\ cardPending' = {r \in cardPending : r.kind # k}
  /\ cardSent' = NoCardRequest
\* The card sends a request of kind k.
Send(k) ==
  /\ ~InFlight(k)
  /\ cardPending' = cardPending \cup {CardRequest(k)}
  /\ cardSent' = k
\* A step of the card leaves everything outside it alone.
CardOnly == HomeIdle /\ AuxIdle /\ DialogIdle /\ AuthIdle

\* toggleLike switching the heart before the request is answered.
ToggleLikeOptimistic ==
  /\ card.mounted
  /\ IF user = "anon"
       THEN /\ notice' = ErrLikeLogin
            /\ cardSent' = NoCardRequest
            /\ UNCHANGED <<card, cardPending>>
       ELSE /\ Send("like")
            /\ card' = [card EXCEPT !.liked = ~card.liked]
            /\ notice' = NoNotice
  /\ CardOnly

\* toggleLike up to its await.
ToggleLike ==
  /\ card.mounted
  /\ IF user = "anon"
       THEN /\ notice' = ErrLikeLogin
            /\ cardSent' = NoCardRequest
            /\ UNCHANGED <<card, cardPending>>
       ELSE /\ Send("like")
            /\ card' = card
            /\ notice' = NoNotice
  /\ CardOnly

\* toggleLike after its await: response.data.liked and likes_count.
LikeLoaded(lk, n) ==
  /\ Answered("like")
  /\ card' = [card EXCEPT !.liked = lk, !.likesCount = n]
  /\ notice' = NoNotice
  /\ CardOnly

\* toggleLike's catch.
LikeFailed ==
  /\ Answered("like")
  /\ card' = card
  /\ notice' = ErrLike
  /\ CardOnly

\* toggleFavorite up to its await; the star is rendered for a user only.
ToggleFavorite ==
  /\ card.mounted
  /\ user # "anon"
  /\ ~InFlight("favorite-add") /\ ~InFlight("favorite-del")
  /\ Send(IF card.isFavorite THEN "favorite-del" ELSE "favorite-add")
  /\ card' = card
  /\ notice' = NoNotice
  /\ CardOnly

\* toggleFavorite after its await.
FavoriteDone(k) ==
  /\ Answered(k)
  /\ card' = [card EXCEPT !.isFavorite = (k = "favorite-add")]
  /\ notice' = OkFavorite(k)
  /\ CardOnly

\* toggleFavorite's catch.
FavoriteFailed(k) ==
  /\ Answered(k)
  /\ card' = card
  /\ notice' = ErrFavorite
  /\ CardOnly

\* checkIfLiked / checkIfFavorite after their await.
CheckLoaded(k, b) ==
  /\ Answered(k)
  /\ card' = IF k = "liked" THEN [card EXCEPT !.liked = b]
                            ELSE [card EXCEPT !.isFavorite = b]
  /\ notice' = NoNotice
  /\ CardOnly

\* loadComments up to its await.
LoadComments ==
  /\ card.mounted
  /\ Send("comments")
  /\ card' = card
  /\ notice' = NoNotice
  /\ CardOnly

\* loadComments after its await.
CommentsLoaded(n) ==
  /\ Answered("comments")
  /\ card' = [card EXCEPT !.comments = n, !.showComments = TRUE]
  /\ notice' = NoNotice
  /\ CardOnly

\* The catch of checkIfLiked, checkIfFavorite, loadComments: console.error.
SilentFailed(k) ==
  /\ Answered(k)
  /\ card' = card
  /\ notice' = NoNotice
  /\ CardOnly

\* The comment box, rendered for a user once the comments are shown.
SetNewComment(v) ==
  /\ card.mounted
  /\ card.showComments
  /\ user # "anon"
  /\ card' = [card EXCEPT !.newComment = v]
  /\ cardSent' = NoCardRequest
  /\ cardPending' = cardPending
  /\ notice' = NoNotice
  /\ CardOnly

\* addComment up to its await; "Envoyer" is disabled on an empty text.
AddComment ==
  /\ card.mounted
  /\ card.showComments
  /\ user # "anon"
  /\ card.newComment # ""
  /\ card.comments < MaxComments
  /\ Send("comment")
  /\ card' = card
  /\ notice' = NoNotice
  /\ CardOnly

\* addComment after its await: setComments([response.data, ...comments]).
CommentAdded ==
  /\ Answered("comment")
  /\ \E r \in cardPending :
       /\ r.kind = "comment"
       /\ card' = [card EXCEPT !.comments = r.base + 1, !.newComment = ""]
  /\ notice' = OkComment
  /\ CardOnly

\* addComment's catch.
CommentAddFailed ==
  /\ Answered("comment")
  /\ card' = card
  /\ notice' = ErrComment
  /\ CardOnly

\* A card of listing 1 just mounted on the default view, for a visitor or
\* for a user (whose mount effect sent checkIfLiked and checkIfFavorite).
InitCard ==
  /\ user \in Users
  /\ listings = <<L1>>
  /\ loading = FALSE
  /\ searchQuery = ""
  /\ activeView = "home"
  /\ selectedListing = 0
  /\ filters = EmptyFilters
  /\ pending = <<>>
  /\ latest = [state |-> "ok", data |-> <<L1>>]
  /\ sent = NoRequest
  /\ notice = NoNotice
  /\ resetFrom = NoReset
  /\ aux = EffectFetches("anon") \cup EffectFetches(user)
  /\ lists = [k \in AuxKinds |-> "empty"]
  /\ publishOpen = FALSE
  /\ step = 1
  /\ form = EmptyForm
  /\ placedMarker = NoMarker
  /\ isPlacingMarker = FALSE
  /\ selectedFiles = 0
  /\ dlgLoading = FALSE
  /\ submitting = NotSubmitting
  /\ geoPending = 0
  /\ geoSent = NoGeoRequest
  /\ lookedUp = FALSE
  /\ edited = {}
  /\ created = 0
  /\ token = NoToken
  /\ stored = NoToken
  /\ header = NoToken
  /\ mePending = 0
  /\ loginOpen = FALSE
  /\ registerOpen = FALSE
  /\ authPending = {}
  /\ card = NewCard
  /\ cardPending = IF user # "anon"
                     THEN {[kind |-> "liked", base |-> 0], [kind |-> "favorite", base |-> 0]}
                     ELSE {}
  /\ cardSent = NoCardRequest

\* The whole coordinator; the sidebar's city control stands for the filters.
Next ==
  \/ \E q \in QueryInputs : SetSearchQuery(q)
  \/ \E v \in FieldInputs("city") : SetFilterField("city", v)
  \/ ResetFilters
  \/ HandleSearch
  \/ Actualiser
  \/ VoirToutes
  \/ \E v \in Views : SetActiveView(v)
  \/ \E i \in DOMAIN listings : HandleMarkerClick(i)
  \/ \E i \in DOMAIN listings : MapMarkerClick(i)
  \/ \E u \in Users : UserChanged(u)
  \/ \E i \in DOMAIN pending : \E r \in Results : ListingsLoaded(i, r)
  \/ \E i \in DOMAIN pending : ListingsFailed(i)

Spec == Init /\ [][Next]_vars

\* The query a search sends: every control of the sidebar, one anonymous
\* visitor who stays on the advanced-search view.
NextQuery ==
  \/ \E q \in QueryInputs : SetSearchQuery(q)
  \/ \E f \in FilterFields : \E v \in FieldInputs(f) : SetFilterField(f, v)
  \/ ResetFilters
  \/ HandleSearch
  \/ Actualiser
  \/ VoirToutes
  \/ SetActiveView("search")
  \/ \E i \in DOMAIN pending : \E r \in {<<>>, <<L1>>} : ListingsLoaded(i, r)
  \/ \E i \in DOMAIN pending : ListingsFailed(i)

SpecQuery == Init /\ [][NextQuery]_vars

\* Locating a new listing: a user logs in and works in the publish dialog;
\* the city input stands for the form's text inputs.
NextPublish ==
  \/ UserChanged("u1")
  \/ OpenPublish
  \/ ClosePublish
  \/ \E n \in {1, 2} : SetStep(n)
  \/ SetIsPlacingMarker
  \/ \E v \in FormInputs : SetFormField("city", v)
  \/ \E p \in MapPoints : HandleMapClick(p)
  \/ \E p \in MapPoints : MapClickUnarmed(p)
  \/ \E d \in GeoResults : GeocodeLoaded(d)
  \/ GeocodeFailed
  \/ HandleSubmit
  \/ ListingPosted
  \/ ListingPostFailed

SpecPublish == Init /\ [][NextPublish]_vars

\* Submitting a new listing with its files.
NextSubmit ==
  \/ UserChanged("u1")
  \/ OpenPublish
  \/ ClosePublish
  \/ SetFormField("city", "Akanda")
  \/ \E n \in FileBatches : HandleFileSelect(n)
  \/ RemoveFile
  \/ HandleSubmit
  \/ ListingPosted
  \/ ListingPostFailed
  \/ ImagesPosted
  \/ ImagesPostFailed

SpecSubmit == Init /\ [][NextSubmit]_vars

\* Home's lists: the four GETs beside the listing search.
NextLoad ==
  \/ \E u \in Users : UserChanged(u)
  \/ \E k \in AuxKinds : AuxLoaded(k)
  \/ \E k \in AuxKinds : AuxFailed(k)
  \/ \E i \in DOMAIN pending : \E r \in {<<>>, <<L1>>} : ListingsLoaded(i, r)
  \/ \E i \in DOMAIN pending : ListingsFailed(i)

SpecLoad == Init /\ [][NextLoad]_vars

\* The session: login, register, logout and fetchUser, with Home's effect.
NextAuth ==
  \/ \E k \in AuthKinds : OpenAuthDialog(k)
  \/ \E k \in AuthKinds : CloseAuthDialog(k)
  \/ \E k \in AuthKinds : HandleAuthSubmit(k)
  \/ \E k \in AuthKinds : \E t \in Tokens : AuthSucceeded(k, t)
  \/ \E k \in AuthKinds : AuthFailed(k)
  \/ Logout
  \/ MeLoaded
  \/ MeFailed
  \/ \E i \in DOMAIN pending : ListingsLoaded(i, <<>>)

SpecAuth == Init /\ [][NextAuth]_vars

\* One listing card while it stays mounted.
NextCard ==
  \/ ToggleLike
  \/ \E lk \in BOOLEAN : \E n \in 0..MaxLikes : LikeLoaded(lk, n)
  \/ LikeFailed
  \/ ToggleFavorite
  \/ \E k \in {"favorite-add", "favorite-del"} : FavoriteDone(k)
  \/ \E k \in {"favorite-add", "favorite-del"} : FavoriteFailed(k)
  \/ \E k \in {"liked", "favorite"} : \E b \in BOOLEAN : CheckLoaded(k, b)
  \/ LoadComments
  \/ \E n \in 0..MaxComments : CommentsLoaded(n)
  \/ \E k \in {"liked", "favorite", "comments"} : SilentFailed(k)
  \/ \E v \in CommentInputs : SetNewComment(v)
  \/ AddComment
  \/ CommentAdded
  \/ CommentAddFailed

SpecCard == InitCard /\ [][NextCard]_vars

\* ------------------------------------------------------------- claims

\* C1: of two searches issued A then B, the result set on screen once both
\* responses have arrived is B's response, whatever the order of arrival.
C1_LatestResponseWins ==
  (Len(pending) = 0 /\ latest.state = "ok") => listings = latest.data

\* C2 as stated: when a request fails, the result set is what it was when
\* that request was issued; an error notice is emitted, loading ends, the
\* query text and the filters are unchanged.  Taken for a failing request
\* that a later one has superseded, so that the response which replaced the
\* result set in between is never a stale one.
C2_FailureRestoresIssueTime ==
  [][\A i \in DOMAIN pending :
       (ListingsFailed(i) /\ ~IsLatest(i) /\ latest.state = "ok") =>
         /\ listings' = pending[i].before
         /\ notice' = ErrLoadListings
         /\ loading' = FALSE
         /\ searchQuery' = searchQuery
         /\ filters' = filters]_vars

\* C2 amended: handling a failed request leaves the result set as it was just
\* before the failure arrived; an error notice is emitted, loading becomes
\* false, the query text and the filters are unchanged.
C2_FailureLeavesListings ==
  [][\A i \in DOMAIN pending :
       ListingsFailed(i) =>
         /\ listings' = listings
         /\ notice' = ErrLoadListings
         /\ loading' = FALSE
         /\ searchQuery' = searchQuery
         /\ filters' = filters]_vars

\* A failure was just handled while a non-empty result set was on screen.
C2_Witness ==
  notice = ErrLoadListings /\ listings # <<>> /\ ~loading

Null == "<null>"

\* C3: the query handleSearch puts on the wire has no key for an empty filter
\* field, no `search` key for an empty query text, and no empty, null or
\* undefined value.
C3_NoEmptyKeys ==
  sent.by = "handleSearch" =>
    \A k \in DOMAIN sent.query :
      /\ sent.query[k] \notin {"", Null, Undefined}
      /\ k \in FilterFields => filters[k] # ""
      /\ k = "search" => searchQuery # ""

\* A search was sent with an empty query text, one filter set and the others
\* empty.
C3_Witness ==
  /\ sent.by = "handleSearch"
  /\ searchQuery = ""
  /\ filters["city"] # ""
  /\ filters["price_min"] = ""

\* The query handleSearch sends from a freshly initialised Home whose query
\* text is q.
FreshSearch(q) ==
  WireQuery(FetchListingsParams(HandleSearchParams(q, EmptyFilters)))

\* C4: a search that follows resetFilters sends what a fresh Home with the
\* same query text sends; in particular no city and no price_min key.
C4_ResetThenSearchIsFresh ==
  (sent.by = "handleSearch" /\ resetFrom # NoReset) =>
    /\ sent.query = FreshSearch(searchQuery)
    /\ "city" \notin DOMAIN sent.query
    /\ "price_min" \notin DOMAIN sent.query

\* city and price_min were set, then reset, then a search was sent.
C4_Witness ==
  /\ sent.by = "handleSearch"
  /\ resetFrom = {"city", "price_min"}
  /\ searchQuery = "pk12"

\* C5: every GET /listings carries limit 20 and random_order true, and a
\* search with empty text and empty filters carries nothing else.
C5_DefaultsAlwaysSent ==
  /\ sent # NoRequest =>
       /\ {"limit", "random_order"} \subseteq DOMAIN sent.query
       /\ sent.query["limit"] = "20"
       /\ sent.query["random_order"] = "true"
  /\ (sent.by = "handleSearch" /\ searchQuery = "" /\ filters = EmptyFilters) =>
       DOMAIN sent.query = {"limit", "random_order"}

\* A search was sent with nothing set.
C5_Witness ==
  /\ sent.by = "handleSearch"
  /\ searchQuery = ""
  /\ filters = EmptyFilters

\* C6: while a request is in flight the cards of the previous result set stay
\* on screen.
C6_PreviousResultsStayVisible ==
  (Len(pending) > 0 /\ listings # <<>> /\ activeView \in {"home", "search"}) =>
    ListCards = CardsOf(listings)

Range(seq) == {seq[i] : i \in DOMAIN seq}

\* C7: the map's markers and the list's cards are the same listings.
C7_MapShowsSameListings ==
  Range(MapMarkers(listings)) = Range(CardsOf(listings))

C9_ResetIsFramed ==
  [][ResetFilters =>
       /\ \A f \in FilterFields : filters'[f] = ""
       /\ searchQuery' = searchQuery
       /\ activeView' = activeView
       /\ listings' = listings
       /\ pending' = pending
       /\ sent' = NoRequest]_vars

\* A reset cleared two set fields while a query text was typed and a result
\* set was on screen.
C9_Witness ==
  /\ Cardinality(resetFrom) = 2
  /\ resetFrom # NoReset
  /\ filters = EmptyFilters
  /\ searchQuery = "pk12"
  /\ listings # <<>>

\* C10: handleSearch issues exactly one request; handling a failure issues
\* none; and only a user's event handler (or the effect a login or logout
\* triggers) ever issues one.
C10_OneRequestNoRetry ==
  [][/\ HandleSearch =>
          /\ Len(pending') = Len(pending) + 1
          /\ sent'.by = "handleSearch"
     /\ \A i \in DOMAIN pending :
          ListingsFailed(i) =>
            /\ pending' = Remove(pending, i)
            /\ sent' = NoRequest
     /\ sent' # NoRequest =>
          \/ HandleSearch
          \/ Actualiser
          \/ VoirToutes
          \/ \E u \in Users : UserChanged(u)]_vars

\* The only request of a search failed and nothing is in flight afterwards.
C10_Witness ==
  /\ notice = ErrLoadListings
  /\ latest.state = "failed"
  /\ Len(pending) = 0
  /\ sent = NoRequest

\* C11: once every outstanding response has arrived, whether fulfilled or
\* rejected and in whatever order, loading is false and a further search can
\* be issued.
C11_IdleWhenAllArrived ==
  Len(pending) = 0 => (~loading /\ ENABLED HandleSearch)

\* The most recently issued request was rejected, every response has arrived,
\* a result set is on screen and the coordinator is idle.
C11_Witness ==
  /\ Len(pending) = 0
  /\ latest.state = "failed"
  /\ notice = NoNotice
  /\ listings # <<>>
  /\ ~loading

C13_LookupKeepsManualEdits ==
  [][\A d \in GeoResults :
       GeocodeLoaded(d) => \A f \in edited : form'[f] = form[f]]_vars

\* C14: opening the publish dialog (again, after 'Annuler' or a successful
\* submit closed it) starts with no placed marker.
C14_ReopenHasNoMarker ==
  [][OpenPublish => ~placedMarker'.has]_vars

\* C15: each of the six numeric filter fields is empty or holds a
\* non-negative number in every reachable state, and no request carries a
\* negative bound.
C15_NumericFieldsNonNegative ==
  /\ \A f \in NumericFields : filters[f] = "" \/ ToNumber(filters[f]) >= 0
  /\ \A f \in NumericFields \cap DOMAIN sent.query : ToNumber(sent.query[f]) >= 0

\* C16: a range whose minimum exceeds its maximum is neither rejected nor
\* reordered: handleSearch sends the request with both bounds as entered.
C16_InvertedRangeSentAsEntered ==
  [][\A r \in Ranges :
       HandleSearch /\ Inverted(filters, r) =>
         /\ sent'.by = "handleSearch"
         /\ sent'.query[r.min] = filters[r.min]
         /\ sent'.query[r.max] = filters[r.max]
         /\ notice' = NoNotice]_vars

\* A search has just gone out with price_min 1000000 above price_max 500.
C16_Witness ==
  /\ sent.by = "handleSearch"
  /\ "price_min" \in DOMAIN sent.query
  /\ "price_max" \in DOMAIN sent.query
  /\ sent.query["price_min"] = "1000000"
  /\ sent.query["price_max"] = "500"
  /\ filters["price_min"] = "1000000"
  /\ filters["price_max"] = "500"

\* The elements of a occur in b in the order they have in a.
InOrderOf(a, b) ==
  \E pos \in [DOMAIN a -> DOMAIN b] :
    /\ \A k \in DOMAIN a : b[pos[k]] = a[k]
    /\ \A j, k \in DOMAIN a : j < k => pos[j] < pos[k]

\* C17: a fulfilled request stores its response element for element in the
\* response's order, no other step changes the result set, and the map's
\* markers follow the order of the list's cards.
C17_ResponseOrderKept ==
  /\ [][\A i \in DOMAIN pending : \A r \in Results :
          ListingsLoaded(i, r) => listings' = r]_vars
  /\ [][listings' # listings =>
          \E i \in DOMAIN pending : \E r \in Results : ListingsLoaded(i, r)]_vars
  /\ [](InOrderOf(MapMarkers(listings), CardsOf(listings)))

\* A response not in id order is on screen, two of its listings on the map.
C17_Witness ==
  /\ listings = <<L4, L2, L1>>
  /\ CardsOf(listings) = <<4, 2, 1>>
  /\ MapMarkers(listings) = <<4, 1>>
  /\ latest = [state |-> "ok", data |-> <<L4, L2, L1>>]

\* C18: when handleSubmit returns after the backend stored the listing, a
\* refresh of the listing search has been triggered.
C18_MutationRefreshes ==
  [][(submitting'.at = "idle"
        /\ (submitting.at = "images" \/ created' > created))
       => sent'.by # "none"]_vars

\* C19: every rejected backend request is surfaced as a notice and leaves
\* the result set and the loaded lists as they were.
C19_EveryFailureNotified ==
  [][((\E k \in AuxKinds : AuxFailed(k))
        \/ (\E i \in DOMAIN pending : ListingsFailed(i)))
       => /\ notice' # NoNotice
          /\ listings' = listings
          /\ lists' = lists]_vars

\* C20: the number of selected files never exceeds 10; a selection that
\* would exceed it is rejected as a whole, with an error notice, and leaves
\* the selection unchanged.
C20_AtMostTenFiles ==
  /\ [](selectedFiles <= MaxFiles)
  /\ [][\A n \in FileBatches :
          HandleFileSelect(n) /\ selectedFiles + n > MaxFiles =>
            selectedFiles' = selectedFiles /\ notice' = ErrMaxFiles]_vars

\* Ten files are selected and a further selection has just been rejected.
C20_Witness ==
  /\ selectedFiles = MaxFiles
  /\ notice = ErrMaxFiles

\* No step of the coordinator has made the profile view the active view.
ProfileNeverActive == activeView # "profile"

\* C21: a logged-in user can make the profile view, the one showing the
\* edit and delete actions, the active view.
C21_LoggedInCanOpenProfile ==
  user # "anon" => ENABLED SetActiveView("profile")

\* C22: the loading flag is true as long as at least one listing-search
\* request has been issued and has not yet completed.
C22_LoadingWhileOutstanding ==
  Len(pending) > 0 => loading

\* C23: editing one filter field leaves the other eight filter fields, the
\* query text, the active view and the result set unchanged and issues no
\* request; editing the query text changes only the query text and issues
\* no request.
C23_EditsAreFramed ==
  [][/\ \A f \in FilterFields : \A v \in FieldInputs(f) :
          SetFilterField(f, v) =>
            /\ filters'[f] = v
            /\ \A g \in FilterFields \ {f} : filters'[g] = filters[g]
            /\ searchQuery' = searchQuery
            /\ activeView' = activeView
            /\ listings' = listings
            /\ sent' = NoRequest
            /\ pending' = pending
     /\ \A q \in QueryInputs :
          SetSearchQuery(q) =>
            /\ searchQuery' = q
            /\ filters' = filters
            /\ activeView' = activeView
            /\ listings' = listings
            /\ sent' = NoRequest
            /\ pending' = pending]_vars

\* A city and a neighbourhood are chosen in the sidebar, beside a query text
\* and a result set on screen; the last step sent nothing.
C23_Witness ==
  /\ filters["neighborhood"] = "Louis"
  /\ filters["city"] = "Port-Gentil"
  /\ searchQuery = "pk12"
  /\ listings = <<L1>>
  /\ sent = NoRequest
  /\ pending = <<>>

\* C24: each marker placement records the clicked coordinate as the placed
\* marker and sends exactly one reverse-geocode request carrying that
\* coordinate's latitude and longitude.
C24_PlacementSendsOneLookup ==
  [][\A p \in MapPoints :
       HandleMapClick(p) =>
         /\ placedMarker' = p
         /\ geoSent' = [has |-> TRUE, lat |-> p.lat, lon |-> p.lng]
         /\ geoPending' = geoPending + 1]_vars

\* The marker has just been placed at (1, 10) and one lookup for (1, 10) is
\* on the wire.
C24_Witness ==
  /\ placedMarker = LatLng(1, 10)
  /\ geoSent = [has |-> TRUE, lat |-> 1, lon |-> 10]
  /\ geoPending = 1

\* C25: every request sent to the listing-search endpoint carries the
\* serialization of the query text and the filters current when it is issued.
C25_RequestCarriesCurrentQuery ==
  sent.by # "none" =>
    sent.query = WireQuery(FetchListingsParams(HandleSearchParams(searchQuery, filters)))

\* C26: a user is set only while a token is set; in particular after a
\* logout both stay null until the next successful login or register.
C26_UserImpliesToken ==
  user # "anon" => token # NoToken

\* C27: when the publish dialog reports 'Erreur lors de la publication',
\* the backend holds no listing it did not hold when the form was submitted.
C27_ErrorMeansNothingCreated ==
  [][notice' = ErrPublish => created' = submitting.base]_vars

\* C28: a marker is placed and a lookup is sent only by a step that starts
\* armed and ends disarmed, and a map click in the unarmed state changes
\* nothing.
C28_OnlyArmedClicksPlace ==
  /\ [][(geoSent'.has \/ (placedMarker'.has /\ placedMarker' # placedMarker))
          => isPlacingMarker /\ ~isPlacingMarker']_vars
  /\ [][\A p \in MapPoints :
          MapClickUnarmed(p) =>
            /\ UNCHANGED <<placedMarker, isPlacingMarker, form, geoPending, step>>
            /\ ~geoSent'.has
            /\ notice' = NoNotice]_vars

\* After an earlier lookup filled the form, an armed click has just placed the
\* marker at (1, 10), sent its one lookup and left the map disarmed.
C28_Witness ==
  /\ placedMarker = LatLng(1, 10)
  /\ geoSent = [has |-> TRUE, lat |-> 1, lon |-> 10]
  /\ ~isPlacingMarker
  /\ lookedUp
  /\ form.city = "Libreville"
  /\ step = 2

C29_WitnessUser ==
  /\ user = "u1"
  /\ notice = ErrLike
  /\ card.liked /\ card.likesCount = 1

\* C30: a rejected login or register leaves token, user, the persisted token
\* and the Authorization header unchanged, shows an error notice and leaves
\* the dialog open; a submission closes its dialog only by succeeding, and
\* then token and user are set and the persisted token is the token in state.
C30_FailedAuthChangesNothing ==
  /\ [][\A k \in AuthKinds :
          AuthFailed(k) =>
            /\ UNCHANGED <<token, user, stored, header>>
            /\ notice' = ErrAuth(k)
            /\ loginOpen' = loginOpen
            /\ registerOpen' = registerOpen]_vars
  /\ [][\A k \in AuthKinds :
          (IsOpen(k) /\ ~IsOpen(k)' /\ ~CloseAuthDialog(k)) =>
            /\ k \in authPending
            /\ k \notin authPending'
            /\ notice' = OkAuth(k)
            /\ token' \in Tokens
            /\ user' # "anon"
            /\ stored' = token'
            /\ header' = token']_vars

\* A login has just been rejected: the dialog is still open and no session
\* exists.
C30_Witness ==
  /\ notice = ErrAuth("login")
  /\ loginOpen
  /\ token = NoToken /\ stored = NoToken /\ header = NoToken
  /\ user = "anon"
  /\ authPending = {}

====
